---------------------------- MODULE Spec2Model ----------------------------
(***************************************************************************)
(* A model of the OzeeCubed software oscilloscope: the WaveformData core   *)
(* (windowing, trigger search, scales), the TriggerSettings object, the    *)
(* persistence history of the canvas, and the three front ends that drive  *)
(* the core (the iced desktop shell of src/src/main.rs, the winit shell of *)
(* src/gui-v2/src/state.rs and the browser shell of src/wasm/src/lib.rs).  *)
(*                                                                         *)
(* Numbers.  The program computes with f32.  The model computes with exact *)
(* integers in fixed units, chosen so that every value the x2 and /2 scale *)
(* steps reach from the defaults is a whole number of units:               *)
(*   time   : 1 unit = 1/1600000 s (0.001 s = 1600, the floor 1e-5 s = 16) *)
(*   voltage: 1 unit = 1/1600 V    (0.5 V = 800, the floor 0.01 V = 16,    *)
(*                                  0.1 V = 160, 10 V = 16000)             *)
(* A quotient (a display coordinate) is an exact fraction <<num, den>> in  *)
(* lowest terms.  Rounding error of f32 arithmetic is not modelled.        *)
(* Buffer indices are the code's 0-based indices; a sequence s of the      *)
(* model holds the code's s[i] at position i + 1.                          *)
(***************************************************************************)
EXTENDS Integers, Sequences, FiniteSets, TLC

VARIABLES
    shell,               \* which program runs: "core", "desktop", "gui_v2", "wasm"
    audio_capture,       \* Option<AudioCapture>: TRUE = Some(capture), FALSE = None
    audio_buffer,        \* the shell's rolling sample buffer (Vec<f32>)
    spectrum_canvas,     \* what the desktop's SpectrumCanvas holds (see UpdateSpectrum)
    sample_buffer,       \* the handoff buffer of WebAudioCapture, each sample by its
                         \* arrival number (the ticks of the shells take a batch of
                         \* any length in BatchLens instead)
    samples,             \* WaveformData.samples
    time_per_division,   \* WaveformData.time_per_division, in time units
    volts_per_division,  \* WaveformData.volts_per_division, in voltage units
    sample_rate,         \* WaveformData.sample_rate, in Hz
    enabled,             \* TriggerSettings.enabled
    edge,                \* TriggerSettings.edge: "Rising" or "Falling"
    level,               \* TriggerSettings.level, in voltage units
    history,             \* the persistence history (VecDeque<Vec<(f32, f32)>>)
    persistence_enabled, \* WaveformCanvas.persistence_enabled
    persistence_frames,  \* WaveformCanvas.persistence_frames
    live,                \* the points of the trace drawn at full opacity
    captured,            \* number of samples the capture device has delivered
    steps_left,          \* number of further handler runs the model explores
    last_op,             \* what ran last: "none", "append" (a tick that appended
                         \* samples to audio_buffer), "tick" (any other tick),
                         \* "intent", "render", "init_audio", "callback"
    called,              \* the core function called last, directly ("none" before)
    ret                  \* what that call computed (its locals and its result)

wave_vars == <<samples, time_per_division, volts_per_division, sample_rate>>
trig_vars == <<enabled, edge, level>>
canvas_vars == <<history, persistence_enabled, persistence_frames>>
shell_vars == <<shell, audio_capture, audio_buffer, spectrum_canvas, sample_buffer,
                live>>
count_vars == <<captured, steps_left, last_op>>
call_vars == <<called, ret>>
vars == <<wave_vars, trig_vars, canvas_vars, shell_vars, count_vars, call_vars>>

---------------------------------------------------------------------------
(* Units and program constants.                                            *)

TimeUnitsPerSecond == 1600000
VoltUnitsPerVolt == 1600

DefaultTimePerDivision == 1600
DefaultVoltsPerDivision == 800
MinTimePerDivision == 16
MinVoltsPerDivision == 16
Divisions == 10
DefaultSampleRate == 48000
Margin == 200
MaxLevel == 16000
MinLevel == -16000
LevelStep == 160
DefaultPersistenceFrames == 10
MinPersistenceFrames == 1
MaxPersistenceFrames == 30

---------------------------------------------------------------------------
(* Bounds of the model.                                                    *)

\* Longest sample set drawn as the input of a direct call of a core function.
MaxLen == 4
\* Number of handler runs (ticks and intents) explored from a shell's start.
MaxSteps == 3
\* Largest time scale the intents may set (0.001 s); keeps the sample counts
\* within the integers of the checker.
MaxTimePerDivision == 1600
\* Largest voltage scale the intents may set (10 V, the top of the slider).
MaxVoltsPerDivision == 16000
\* Number of scale intents explored from a shell's start.
MaxScaleIntents == 10
\* Number of calls of the canvas methods explored from WaveformCanvas::new.
MaxCanvasCalls == 6
\* Number of add_to_history calls explored on a canvas of a given depth.
MaxAdds == 32
\* Number of intents explored when no tick is taken.
MaxIntents == 102
\* How far, in steps of 0.1 V, an unclamped trigger level may leave [-10 V, 10 V].
MaxOvershoot == 1

---------------------------------------------------------------------------
(* Arithmetic helpers.                                                     *)

Min(a, b) == IF a <= b THEN a ELSE b
Max(a, b) == IF a >= b THEN a ELSE b
Abs(a) == IF a < 0 THEN -a ELSE a

\* usize::saturating_sub
SaturatingSub(a, b) == IF a >= b THEN a - b ELSE 0

RECURSIVE GCD(_, _)
GCD(a, b) == IF b = 0 THEN a ELSE GCD(b, a % b)

\* The quotient n / d of two numbers (d >= 0) as an exact fraction in lowest
\* terms.  A zero denominator stands for what f32 division by zero gives: an
\* infinity (<<1, 0>>, <<-1, 0>>) or a NaN (<<0, 0>>).
Frac(n, d) ==
    IF d = 0 THEN <<IF n > 0 THEN 1 ELSE IF n < 0 THEN -1 ELSE 0, 0>>
    ELSE LET g == GCD(Abs(n), d)
         IN  <<n \div g, d \div g>>

\* p <= q for two fractions; false when either is a NaN, as in f32.
FracLeq(p, q) ==
    /\ p # <<0, 0>>
    /\ q # <<0, 0>>
    /\ p[1] * q[2] <= q[1] * p[2]

\* The code's s[i] (0-based).
At(s, i) == s[i + 1]

\* The code's s[a..b] (0-based, b exclusive).
Slice(s, a, b) == [k \in 1..(b - a) |-> s[a + k]]

---------------------------------------------------------------------------
(* WaveformData (src/src/oscilloscope/waveform.rs).                        *)

\* A mutant: rounds to nearest instead of truncating.
CalculateSamplesPerScreenRounded(tpd, rate) ==
    IF tpd <= 0 THEN 0
    ELSE (2 * tpd * Divisions * rate + TimeUnitsPerSecond) \div (2 * TimeUnitsPerSecond)

\* calculate_samples_per_screen: (time_per_division * 10.0 * sample_rate) as usize.
\* The cast truncates toward zero and maps a negative product to 0.
CalculateSamplesPerScreen(tpd, rate) ==
    IF tpd <= 0 THEN 0
    ELSE (tpd * Divisions * rate) \div TimeUnitsPerSecond

\* The edge test of find_trigger_point's loop body.
Triggered(prev, curr, ed, threshold) ==
    IF ed = "Rising"
    THEN prev < threshold /\ curr >= threshold
    ELSE prev > threshold /\ curr <= threshold

\* The loop of find_trigger_point over the indices lo .. hi - 1, in order: the
\* first index that triggers, and 0 when the loop runs out.  The range is
\* visited front half first, so the evaluation nests only logarithmically deep.
RECURSIVE ScanFrom(_, _, _, _, _)
ScanFrom(s, lo, hi, ed, threshold) ==
    IF lo >= hi THEN 0
    ELSE IF hi - lo = 1
    THEN IF Triggered(At(s, lo - 1), At(s, lo), ed, threshold) THEN lo ELSE 0
    ELSE LET mid == (lo + hi) \div 2
             front == ScanFrom(s, lo, mid, ed, threshold)
         IN  IF front # 0 THEN front ELSE ScanFrom(s, mid, hi, ed, threshold)

\* A mutant: the scan keeps the last index that triggers, not the first.
RECURSIVE ScanLast(_, _, _, _, _)
ScanLast(s, lo, hi, ed, threshold) ==
    IF lo >= hi THEN 0
    ELSE IF hi - lo = 1
    THEN IF Triggered(At(s, lo - 1), At(s, lo), ed, threshold) THEN lo ELSE 0
    ELSE LET mid == (lo + hi) \div 2
             back == ScanLast(s, mid, hi, ed, threshold)
         IN  IF back # 0 THEN back ELSE ScanLast(s, lo, mid, ed, threshold)

FindTriggerPointLast(s, ed, lv) == ScanLast(s, 1, Len(s), ed, lv)

\* A mutant: the index of the sample before the edge is reported.
FindTriggerPointBefore(s, ed, lv) ==
    LET i == ScanFrom(s, 1, Len(s), ed, lv)
    IN  IF i > 0 THEN i - 1 ELSE 0

\* A mutant: no edge found reports the end of the buffer.
FindTriggerPointEnd(s, ed, lv) ==
    IF \E i \in 1..(Len(s) - 1) : Triggered(At(s, i - 1), At(s, i), ed, lv)
    THEN ScanFrom(s, 1, Len(s), ed, lv)
    ELSE SaturatingSub(Len(s), 1)

\* find_trigger_point
FindTriggerPoint(s, ed, lv) == ScanFrom(s, 1, Len(s), ed, lv)

\* A mutant: free-run starts at the front of the buffer.
TriggerIndexFront(s, sps, en, ed, lv) ==
    IF en THEN FindTriggerPoint(s, ed, lv) ELSE 0

\* The trigger_index of get_display_samples.
TriggerIndex(s, sps, en, ed, lv) ==
    IF en THEN FindTriggerPoint(s, ed, lv) ELSE SaturatingSub(Len(s), sps)

\* A mutant: the end of the window is not clamped to the buffer.
EndIndexUnclamped(s, sps, trigger_index) == trigger_index + sps

\* A mutant: the window always runs to the end of the buffer.
EndIndexWholeBuffer(s, sps, trigger_index) == Len(s)

\* The end_index of get_display_samples.
EndIndex(s, sps, trigger_index) == Min(trigger_index + sps, Len(s))

\* A mutant: the subtraction does not saturate.
StartIndexPlainSub(sps, trigger_index, end_index) ==
    Min(trigger_index, end_index - sps)

\* A mutant: the window always starts at the trigger.
StartIndexAtTrigger(sps, trigger_index, end_index) == trigger_index

\* The start_index of get_display_samples.
StartIndex(sps, trigger_index, end_index) ==
    Min(trigger_index, SaturatingSub(end_index, sps))

\* A mutant: x is the position in the buffer over the window length.
DisplayPointAbsolute(s, start_index, i, sps, vpd) ==
    <<Frac(start_index + i, sps), Frac(At(s, start_index + i), vpd)>>

\* The closure of get_display_samples: the i-th point of the window.
DisplayPoint(s, start_index, i, sps, vpd) ==
    <<Frac(i, sps), Frac(At(s, start_index + i), vpd)>>

\* Whether the slice s[start_index..end_index] is in range.  Rust checks the
\* range of a slice and panics when it is not.
SliceInRange(s, start_index, end_index) ==
    0 <= start_index /\ start_index <= end_index /\ end_index <= Len(s)

\* get_display_samples with its locals: the early return on an empty buffer,
\* the window, and the points of the window (none when the slice panics).
DisplayCall(s, tpd, vpd, rate, en, ed, lv) ==
    LET sps == CalculateSamplesPerScreen(tpd, rate)
    IN  IF s = <<>>
        THEN [samples_per_screen |-> sps, trigger_index |-> 0, start_index |-> 0,
              end_index |-> 0, panicked |-> FALSE, points |-> <<>>]
        ELSE LET trigger_index == TriggerIndex(s, sps, en, ed, lv)
                 end_index == EndIndex(s, sps, trigger_index)
                 start_index == StartIndex(sps, trigger_index, end_index)
                 in_range == SliceInRange(s, start_index, end_index)
             IN  [samples_per_screen |-> sps,
                  trigger_index |-> trigger_index,
                  start_index |-> start_index,
                  end_index |-> end_index,
                  panicked |-> ~in_range,
                  points |-> IF in_range
                             THEN [k \in 1..(end_index - start_index) |->
                                      DisplayPoint(s, start_index, k - 1, sps, vpd)]
                             ELSE <<>>]

\* get_display_samples
GetDisplaySamples(s, tpd, vpd, rate, en, ed, lv) ==
    DisplayCall(s, tpd, vpd, rate, en, ed, lv).points

---------------------------------------------------------------------------
(* SpectrumCanvas::compute_spectrum (src/src/ui/spectrum.rs).  The windowed  *)
(* samples are in units of 1/3200 V (a sample times twice its window        *)
(* weight).  A value of the result is 20 log10 of the clamped magnitude; the *)
(* model keeps it in dB rounded down to a whole decade of power, a multiple  *)
(* of 10 dB, which the floors at -80 dB and -100 dB are.                     *)

MaxFftSize == 4096
\* The largest transform whose window weights and twiddle factors are rational
\* (0, 1/2, 1 and 1, -i, -1, i); larger transforms are taken of silence only.
ExactFftSize == 4
\* Units of the windowed samples per volt.
WindowedUnitsPerVolt == 2 * VoltUnitsPerVolt

\* usize::next_power_of_two, by doubling from p.
RECURSIVE PowerOfTwoFrom(_, _)
PowerOfTwoFrom(p, n) == IF p >= n THEN p ELSE PowerOfTwoFrom(2 * p, n)

NextPowerOfTwo(n) == PowerOfTwoFrom(1, n)

\* A mutant: the transform size is not capped.
FftSizeUncapped(n) == NextPowerOfTwo(n)

\* fft_size
FftSize(n) == Min(NextPowerOfTwo(n), MaxFftSize)

\* take(fft_size) and resize(fft_size, 0): the i-th value (from 0).
Padded(s, i) == IF i < Len(s) THEN At(s, i) ELSE 0

\* Twice the Hann weight 0.5 (1 - cos(2 pi i / fft_size)), for the exact sizes.
HannTwice(i, fft_size) ==
    LET quarter == (i * (ExactFftSize \div fft_size)) % ExactFftSize
    IN  IF quarter = 0 THEN 0 ELSE IF quarter = 2 THEN 2 ELSE 1

\* The windowed buffer, i from 0.  A zero sample stays zero under any weight.
Windowed(s, i, fft_size) ==
    IF Padded(s, i) = 0 THEN 0 ELSE Padded(s, i) * HannTwice(i, fft_size)

\* cos and -sin of 2 pi m / fft_size, for the exact sizes.
TwiddleRe(m, fft_size) ==
    LET quarter == (m * (ExactFftSize \div fft_size)) % ExactFftSize
    IN  IF quarter = 0 THEN 1 ELSE IF quarter = 2 THEN -1 ELSE 0

TwiddleIm(m, fft_size) ==
    LET quarter == (m * (ExactFftSize \div fft_size)) % ExactFftSize
    IN  IF quarter = 1 THEN -1 ELSE IF quarter = 3 THEN 1 ELSE 0

\* One part (Re or Im) of bin k of the forward transform: the sum over i < n.
RECURSIVE BinSum(_, _, _, _, _)
BinSum(s, k, fft_size, n, im) ==
    IF n = 0 THEN 0
    ELSE BinSum(s, k, fft_size, n - 1, im)
         + Windowed(s, n - 1, fft_size)
           * (IF im THEN TwiddleIm((n - 1) * k, fft_size)
                    ELSE TwiddleRe((n - 1) * k, fft_size))

\* |c|^2 of bin k.
NormSquared(s, k, fft_size) ==
    BinSum(s, k, fft_size, fft_size, FALSE) * BinSum(s, k, fft_size, fft_size, FALSE)
    + BinSum(s, k, fft_size, fft_size, TRUE) * BinSum(s, k, fft_size, fft_size, TRUE)

\* The largest e with 10^e <= p / q, for p, q > 0.
RECURSIVE DecadesBelow(_, _)
DecadesBelow(c, k) == IF c <= 1 THEN k ELSE DecadesBelow((c + 9) \div 10, k + 1)

RECURSIVE DecadesAbove(_, _)
DecadesAbove(c, k) == IF c < 10 THEN k ELSE DecadesAbove(c \div 10, k + 1)

FloorLog10(p, q) ==
    IF p >= q THEN DecadesAbove(p \div q, 0)
    ELSE -DecadesBelow((q + p - 1) \div p, 0)

\* 20 log10(max(magnitude, 0.00001)) of the magnitude whose square is p / q V^2:
\* -100 dB when magnitude^2 <= 1e-10.
Decibels(p, q) ==
    IF p = 0 \/ (q \div p) \div 100000 >= 100000 THEN -100
    ELSE 10 * FloorLog10(p, q)

\* The value of bin k: magnitude = |c| / sqrt(fft_size).
BinDecibels(s, k, fft_size, silent) ==
    Decibels(IF silent THEN 0 ELSE NormSquared(s, k, fft_size),
             fft_size * WindowedUnitsPerVolt * WindowedUnitsPerVolt)

\* compute_spectrum: the transform size and the result.
SpectrumCall(s) ==
    IF s = <<>> THEN [fft_size |-> 0, spectrum |-> <<>>]
    ELSE LET fft_size == FftSize(Len(s))
             silent == \A i \in 1..Len(s) : s[i] = 0
         IN  [fft_size |-> fft_size,
              spectrum |-> [k \in 1..Min(fft_size, fft_size \div 2) |->
                               BinDecibels(s, k - 1, fft_size, silent)]]

ComputeSpectrum(s) == SpectrumCall(s).spectrum

\* SpectrumCanvas::new: no spectrum yet.
NewSpectrumCanvas == [sample_rate |-> 48000, fft_size |-> 0, bins |-> 0, taken |-> <<>>]

\* update_spectrum(samples, sample_rate): what is published.  The values of the
\* bins are a function of the samples taken and the transform size; for a
\* buffer of any length the model keeps those and the number of bins.
UpdateSpectrum(s, rate) ==
    IF s = <<>> THEN [NewSpectrumCanvas EXCEPT !.sample_rate = rate]
    ELSE LET fft_size == FftSize(Len(s))
         IN  [sample_rate |-> rate,
              fft_size |-> fft_size,
              bins |-> fft_size \div 2,
              taken |-> SubSeq(s, 1, Min(Len(s), fft_size))]

---------------------------------------------------------------------------
(* Direct calls of the core (the library as the unit and integration tests *)
(* use it): a WaveformData and a TriggerSettings with any field values,    *)
(* and one call of a core function at a time.                              *)

NoCall ==
    [samples_per_screen |-> 0, trigger_index |-> 0, start_index |-> 0,
     end_index |-> 0, panicked |-> FALSE, points |-> <<>>]

\* Sample values drawn as inputs: -0.5 V, 0 V, 0.5 V.
SampleInputs == {-800, 0, 800}

\* The sample sets of test_find_trigger_point_rising_edge, _falling_edge and
\* _no_trigger (waveform.rs).
RisingRamp == <<-1600, -800, 0, 800, 1600, 800, 0, -800>>
FallingRamp == <<1600, 800, 0, -800, -1600, -800, 0, 800>>
FlatSignal == <<-1600, -1440, -1280, -1120, -960>>

RECURSIVE SeqsUpTo(_, _)
SeqsUpTo(S, n) ==
    IF n = 0 THEN {<<>>}
    ELSE LET shorter == SeqsUpTo(S, n - 1)
         IN  shorter \cup {Append(s, v) : s \in {q \in shorter : Len(q) = n - 1}, v \in S}

SampleSetInputs == SeqsUpTo(SampleInputs, MaxLen) \cup {RisingRamp, FallingRamp, FlatSignal}

\* Time scales drawn as inputs: 0 (0 samples per screen), 5e-6 s (2), the floor
\* 1e-5 s (4.8), 1.5625e-5 s (7.5: the default halved six times), the default.
TimeScaleInputs == {0, 8, MinTimePerDivision, 25, DefaultTimePerDivision}

\* Voltage scales drawn as inputs: the floor and the default.
VoltScaleInputs == {MinVoltsPerDivision, DefaultVoltsPerDivision}

\* Trigger levels drawn as inputs: -0.25 V, 0 V, 0.25 V.
LevelInputs == {-400, 0, 400}

InitCore ==
    /\ shell = "core"
    /\ audio_capture = FALSE
    /\ audio_buffer = <<>>
    /\ spectrum_canvas = NewSpectrumCanvas
    /\ sample_buffer = <<>>
    /\ samples \in SampleSetInputs
    /\ time_per_division \in TimeScaleInputs
    /\ volts_per_division \in VoltScaleInputs
    /\ sample_rate = DefaultSampleRate
    /\ enabled \in BOOLEAN
    /\ edge \in {"Rising", "Falling"}
    /\ level \in LevelInputs
    /\ history = <<>>
    /\ persistence_enabled = TRUE
    /\ persistence_frames = DefaultPersistenceFrames
    /\ live = <<>>
    /\ captured = 0
    /\ steps_left = 0
    /\ last_op = "none"
    /\ called = "none"
    /\ ret = NoCall

CallFindTriggerPoint ==
    /\ shell = "core"
    /\ called' = "find_trigger_point"
    /\ ret' = [NoCall EXCEPT !.trigger_index = FindTriggerPoint(samples, edge, level)]
    /\ UNCHANGED <<wave_vars, trig_vars, canvas_vars, shell_vars, count_vars>>

CallGetDisplaySamples ==
    /\ shell = "core"
    /\ called' = "get_display_samples"
    /\ ret' = DisplayCall(samples, time_per_division, volts_per_division, sample_rate,
                          enabled, edge, level)
    /\ UNCHANGED <<wave_vars, trig_vars, canvas_vars, shell_vars, count_vars>>

CallCalculateSamplesPerScreen ==
    /\ shell = "core"
    /\ called' = "calculate_samples_per_screen"
    /\ ret' = [NoCall EXCEPT !.samples_per_screen =
                   CalculateSamplesPerScreen(time_per_division, sample_rate)]
    /\ UNCHANGED <<wave_vars, trig_vars, canvas_vars, shell_vars, count_vars>>

NextCore ==
    \/ CallFindTriggerPoint
    \/ CallGetDisplaySamples
    \/ CallCalculateSamplesPerScreen

SpecCore == InitCore /\ [][NextCore]_vars

---------------------------------------------------------------------------
(* WaveformData scale steps (waveform.rs) and TriggerSettings (trigger.rs). *)

\* increase_time_scale, increase_voltage_scale: the scale times 2.
IncreaseScale(v) == v * 2

\* A mutant: the time scale is halved with no floor.
DecreaseTimeScaleNoFloor(tpd) == tpd \div 2

\* decrease_time_scale: (time_per_division / 2.0).max(0.00001), exact for every
\* value the steps reach from the default; coarser values round down.
DecreaseTimeScale(tpd) == Max(tpd \div 2, MinTimePerDivision)

\* decrease_voltage_scale: (volts_per_division / 2.0).max(0.01)
DecreaseVoltageScale(vpd) == Max(vpd \div 2, MinVoltsPerDivision)

\* A mutant: set_level stores the level as given.
SetLevelUnclamped(lv) == lv

\* TriggerSettings::set_level: level.clamp(-10.0, 10.0)
SetLevel(lv) == IF lv < MinLevel THEN MinLevel ELSE IF lv > MaxLevel THEN MaxLevel ELSE lv

\* TriggerSettings::toggle_edge
ToggleEdge(ed) == IF ed = "Rising" THEN "Falling" ELSE "Rising"

\* TriggerSettings::default(): enabled, Rising, level 0.0 (the mode field has no
\* reader and is left out).
DefaultTrigger == [enabled |-> TRUE, edge |-> "Rising", level |-> 0]

---------------------------------------------------------------------------
(* The persistence history (src/src/ui/mod.rs, src/gui-v2/src/state.rs).   *)

\* A mutant: the trim drops the newest entries, not the oldest.
TrimBack(h, frames) ==
    IF Len(h) > frames THEN SubSeq(h, 1, frames) ELSE h

\* while history.len() > frames { history.pop_front(); }
TrimFront(h, frames) ==
    IF Len(h) > frames THEN SubSeq(h, Len(h) - frames + 1, Len(h)) ELSE h

\* A mutant: add_to_history records also while persistence is disabled.
AddToHistoryAlways(h, points, pen, frames) ==
    IF points # <<>> THEN TrimFront(Append(h, points), frames) ELSE h

\* WaveformCanvas::add_to_history
AddToHistory(h, points, pen, frames) ==
    IF pen /\ points # <<>> THEN TrimFront(Append(h, points), frames) ELSE h

\* A mutant: the depth has no lower limit.
ClampFramesNoMin(frames) ==
    IF frames > MaxPersistenceFrames THEN MaxPersistenceFrames ELSE frames

\* frames.clamp(1, 30)
ClampFrames(frames) ==
    IF frames < MinPersistenceFrames THEN MinPersistenceFrames
    ELSE IF frames > MaxPersistenceFrames THEN MaxPersistenceFrames
    ELSE frames

\* A mutant: set_persistence_frames leaves the history as it is.
SetPersistenceFramesNoTrim(h, frames) ==
    [persistence_frames |-> ClampFrames(frames), history |-> h]

\* WaveformCanvas::set_persistence_frames: the new depth and the new history.
SetPersistenceFrames(h, frames) ==
    [persistence_frames |-> ClampFrames(frames),
     history |-> TrimFront(h, ClampFrames(frames))]

\* A mutant: toggle_persistence keeps the history.
TogglePersistenceKeepsHistory(h, pen) ==
    [persistence_enabled |-> ~pen, history |-> h]

\* WaveformCanvas::toggle_persistence: the new flag and the new history.
TogglePersistence(h, pen) ==
    [persistence_enabled |-> ~pen, history |-> IF ~(~pen) THEN <<>> ELSE h]

\* AppState::add_to_history (gui-v2): one pop_front when over PERSISTENCE_FRAMES.
AddToHistoryV2(h, points) ==
    IF points # <<>>
    THEN IF Len(h) + 1 > DefaultPersistenceFrames THEN Tail(Append(h, points))
         ELSE Append(h, points)
    ELSE h

---------------------------------------------------------------------------
(* The sample sources.                                                     *)

\* Half period, in samples, of the square wave the capture device delivers.
HalfPeriod == 250

\* Number of samples one read_samples call may return.
BatchLens == {0, 3, 400}

\* The j-th sample (from 0) of the captured signal: a square wave of -0.5 V and
\* 0.5 V.  What the device hears is an input of the program.
CaptureSample(j) == IF (j \div HalfPeriod) % 2 = 0 THEN -800 ELSE 800

\* The n samples read_samples returns after `from` samples were delivered.
Batch(from, n) == [k \in 1..n |-> CaptureSample(from + k - 1)]

\* sin(2 pi 440 t) * amplitude at t = j / 48000: 11 j / 1200 cycles.  The sine
\* of half a cycle is taken by Bhaskara's rational approximation,
\* sin(pi u) ~ 16 u (1 - u) / (5 - 4 u (1 - u)), on u = k / 600.
TestSample(j, amplitude) ==
    LET k == (11 * j) % 1200
        h == IF k < 600 THEN k ELSE k - 600
        q == h * (600 - h)
        v == (amplitude * 4 * q) \div (450000 - q)
    IN  IF k < 600 THEN v ELSE -v

\* The samples of generate_test_signal: n samples from phase `from`.
TestSignal(from, n, amplitude) == [k \in 1..n |-> TestSample(from + k - 1, amplitude)]

\* A mutant: the buffer keeps its oldest samples.
TrimToCapacityOldest(buf, capacity) ==
    IF Len(buf) > capacity THEN SubSeq(buf, 1, capacity) ELSE buf

\* A mutant: the buffer is never trimmed.
TrimToCapacityNever(buf, capacity) == buf

\* if len > max_buffer_size { drain(0..len - max_buffer_size) }
TrimToCapacity(buf, capacity) ==
    IF Len(buf) > capacity THEN SubSeq(buf, Len(buf) - capacity + 1, Len(buf)) ELSE buf

\* extend_from_slice, then the trim to samples_needed + 200.
AppendAndTrim(buf, new, tpd, rate) ==
    TrimToCapacity(buf \o new, CalculateSamplesPerScreen(tpd, rate) + Margin)

---------------------------------------------------------------------------
(* The shells.  Every handler is one action.  A tick of a shell with a      *)
(* capture device reads a batch of any length in BatchLens.                *)

Trig == [enabled |-> enabled, edge |-> edge, level |-> level]

\* OzScope::new, AppState::new, OzScopeWasm::new.  The desktop and the winit
\* shell start with or without a capture device; the browser shell starts
\* without one and gets it from init_audio.
InitShells(budget) ==
    /\ shell \in {"desktop", "gui_v2", "wasm"}
    /\ audio_capture \in (IF shell = "wasm" THEN {FALSE} ELSE BOOLEAN)
    /\ audio_buffer = <<>>
    /\ spectrum_canvas = NewSpectrumCanvas
    /\ sample_buffer = <<>>
    /\ samples = <<>>
    /\ time_per_division = DefaultTimePerDivision
    /\ volts_per_division = DefaultVoltsPerDivision
    /\ sample_rate = DefaultSampleRate
    /\ enabled = DefaultTrigger.enabled
    /\ edge = DefaultTrigger.edge
    /\ level = DefaultTrigger.level
    /\ history = <<>>
    /\ persistence_enabled = TRUE
    /\ persistence_frames = DefaultPersistenceFrames
    /\ live = <<>>
    /\ captured = 0
    /\ steps_left = budget
    /\ last_op = "none"
    /\ called = "none"
    /\ ret = NoCall

\* The trigger settings OzScope::update hands to get_display_samples for the
\* history entry: `let trigger_settings = TriggerSettings::default();`, not
\* self.trigger_settings.
UpdateDisplayTrigger == DefaultTrigger

\* The trigger settings draw_waveform hands to get_display_samples for the live
\* trace: TriggerSettings::default() again.
DrawDisplayTrigger == DefaultTrigger

\* draw_waveform (ui/mod.rs): the points of the current waveform.
DrawWaveform(s, tpd, vpd, rate) ==
    GetDisplaySamples(s, tpd, vpd, rate, DrawDisplayTrigger.enabled,
                      DrawDisplayTrigger.edge, DrawDisplayTrigger.level)

\* OzScope::update(Message::AudioUpdate): update_audio (a batch from the capture
\* device, or the 4800-sample test signal when there is none), add_to_history,
\* and the redraw.
AudioUpdate ==
    /\ shell = "desktop"
    /\ steps_left > 0
    /\ \E n \in BatchLens :
        LET new == Batch(captured, n)
            appended == audio_capture /\ n > 0
            buf == IF appended
                   THEN AppendAndTrim(audio_buffer, new, time_per_division, sample_rate)
                   ELSE audio_buffer
            smp == IF audio_capture
                   THEN (IF n > 0 THEN buf ELSE samples)
                   ELSE TestSignal(Len(audio_buffer), 4800, 800)
            points == GetDisplaySamples(smp, time_per_division, volts_per_division,
                                        sample_rate, UpdateDisplayTrigger.enabled,
                                        UpdateDisplayTrigger.edge,
                                        UpdateDisplayTrigger.level)
        IN  /\ audio_capture \/ n = 0
            /\ audio_buffer' = buf
            /\ samples' = smp
            /\ spectrum_canvas' = IF appended THEN UpdateSpectrum(buf, sample_rate)
                                  ELSE spectrum_canvas
            /\ captured' = IF audio_capture THEN captured + n ELSE captured
            /\ history' = AddToHistory(history, points, persistence_enabled,
                                       persistence_frames)
            /\ live' = DrawWaveform(smp, time_per_division, volts_per_division,
                                     sample_rate)
            /\ last_op' = IF appended THEN "append" ELSE "tick"
    /\ steps_left' = steps_left - 1
    /\ UNCHANGED <<time_per_division, volts_per_division, sample_rate, trig_vars,
                   persistence_enabled, persistence_frames, shell, audio_capture,
                   sample_buffer, call_vars>>

\* OzScope::update(Message::Control(..)) and the key presses mapped to a
\* control: handle_control with the new scales and trigger settings, then the
\* redraw.
DesktopControl(tpd, vpd, tr) ==
    /\ shell = "desktop"
    /\ steps_left > 0
    /\ time_per_division' = tpd
    /\ volts_per_division' = vpd
    /\ enabled' = tr.enabled
    /\ edge' = tr.edge
    /\ level' = tr.level
    /\ live' = DrawWaveform(samples, tpd, vpd, sample_rate)
    /\ steps_left' = steps_left - 1
    /\ last_op' = "intent"
    /\ UNCHANGED <<samples, sample_rate, canvas_vars, shell, audio_capture,
                   audio_buffer, spectrum_canvas, sample_buffer, captured, call_vars>>

\* Values the Time/Div slider sends: 1e-5 s and 0.001 s.
TimeScaleSliderInputs == {MinTimePerDivision, DefaultTimePerDivision}

\* Values SetTriggerLevel carries: -15 V, -10 V, 0.2 V, 10 V, 15 V.
LevelMessageInputs == {-24000, MinLevel, 320, MaxLevel, 24000}

MsgIncreaseTimeScale ==
    /\ IncreaseScale(time_per_division) <= MaxTimePerDivision
    /\ DesktopControl(IncreaseScale(time_per_division), volts_per_division, Trig)

MsgDecreaseTimeScale ==
    DesktopControl(DecreaseTimeScale(time_per_division), volts_per_division, Trig)

MsgSetTimeScale ==
    \E value \in TimeScaleSliderInputs :
        DesktopControl(value, volts_per_division, Trig)

\* Values the Volts/Div slider sends: 0.01 V and 0.5 V.
VoltScaleSliderInputs == {MinVoltsPerDivision, DefaultVoltsPerDivision}

MsgIncreaseVoltageScale ==
    /\ IncreaseScale(volts_per_division) <= MaxVoltsPerDivision
    /\ DesktopControl(time_per_division, IncreaseScale(volts_per_division), Trig)

MsgDecreaseVoltageScale ==
    DesktopControl(time_per_division, DecreaseVoltageScale(volts_per_division), Trig)

MsgSetVoltageScale ==
    \E value \in VoltScaleSliderInputs :
        DesktopControl(time_per_division, value, Trig)

MsgToggleTrigger ==
    DesktopControl(time_per_division, volts_per_division,
                   [Trig EXCEPT !.enabled = ~enabled])

MsgToggleTriggerEdge ==
    DesktopControl(time_per_division, volts_per_division,
                   [Trig EXCEPT !.edge = ToggleEdge(edge)])

MsgIncreaseTriggerLevel ==
    DesktopControl(time_per_division, volts_per_division,
                   [Trig EXCEPT !.level = SetLevel(level + LevelStep)])

MsgDecreaseTriggerLevel ==
    DesktopControl(time_per_division, volts_per_division,
                   [Trig EXCEPT !.level = SetLevel(level - LevelStep)])

MsgSetTriggerLevel ==
    \E value \in LevelMessageInputs :
        DesktopControl(time_per_division, volts_per_division,
                       [Trig EXCEPT !.level = SetLevel(value)])

\* AppState::update (gui-v2): a batch from the capture device, or
\* generate_test_signal (800 samples appended to audio_buffer and trimmed),
\* then the history entry.  The renderer draws the newest history entry at full
\* opacity.
Update ==
    /\ shell = "gui_v2"
    /\ steps_left > 0
    /\ \E n \in BatchLens :
        LET new == IF audio_capture THEN Batch(captured, n)
                   ELSE TestSignal(Len(audio_buffer), 800, 1600)
            appended == new # <<>>
            buf == IF appended
                   THEN AppendAndTrim(audio_buffer, new, time_per_division, sample_rate)
                   ELSE audio_buffer
            smp == IF appended THEN buf ELSE samples
            points == GetDisplaySamples(smp, time_per_division, volts_per_division,
                                        sample_rate, enabled, edge, level)
            hist == AddToHistoryV2(history, points)
        IN  /\ audio_capture \/ n = 0
            /\ audio_buffer' = buf
            /\ samples' = smp
            /\ captured' = IF audio_capture THEN captured + n ELSE captured
            /\ history' = hist
            /\ live' = IF hist = <<>> THEN <<>> ELSE hist[Len(hist)]
            /\ last_op' = IF appended THEN "append" ELSE "tick"
    /\ steps_left' = steps_left - 1
    /\ UNCHANGED <<time_per_division, volts_per_division, sample_rate, trig_vars,
                   persistence_enabled, persistence_frames, shell, audio_capture,
                   spectrum_canvas, sample_buffer, call_vars>>

\* AppState::handle_key: the fields are assigned directly.
HandleKey(tpd, vpd, tr) ==
    /\ shell = "gui_v2"
    /\ steps_left > 0
    /\ time_per_division' = tpd
    /\ volts_per_division' = vpd
    /\ enabled' = tr.enabled
    /\ edge' = tr.edge
    /\ level' = tr.level
    /\ steps_left' = steps_left - 1
    /\ last_op' = "intent"
    /\ UNCHANGED <<samples, sample_rate, canvas_vars, shell_vars, captured, call_vars>>

\* time_per_division *= 1.1, /= 1.1: to the model's resolution, rounded down.
KeyArrowRight ==
    /\ (time_per_division * 11) \div 10 <= MaxTimePerDivision
    /\ HandleKey((time_per_division * 11) \div 10, volts_per_division, Trig)

KeyArrowLeft ==
    HandleKey((time_per_division * 10) \div 11, volts_per_division, Trig)

\* volts_per_division *= 1.1, /= 1.1
KeyArrowUp ==
    /\ (volts_per_division * 11) \div 10 <= MaxVoltsPerDivision
    /\ HandleKey(time_per_division, (volts_per_division * 11) \div 10, Trig)

KeyArrowDown ==
    HandleKey(time_per_division, (volts_per_division * 10) \div 11, Trig)

KeyT ==
    HandleKey(time_per_division, volts_per_division, [Trig EXCEPT !.enabled = ~enabled])

\* trigger_settings.level += 0.1, -= 0.1: no set_level, no clamp.
KeyBracketRight ==
    /\ level + LevelStep <= MaxLevel + MaxOvershoot * LevelStep
    /\ HandleKey(time_per_division, volts_per_division,
                 [Trig EXCEPT !.level = level + LevelStep])

KeyBracketLeft ==
    /\ level - LevelStep >= MinLevel - MaxOvershoot * LevelStep
    /\ HandleKey(time_per_division, volts_per_division,
                 [Trig EXCEPT !.level = level - LevelStep])

\* OzScopeWasm::init_audio, when the capture is granted.
InitAudio ==
    /\ shell = "wasm"
    /\ ~audio_capture
    /\ audio_capture' = TRUE
    /\ last_op' = "init_audio"
    /\ UNCHANGED <<wave_vars, trig_vars, canvas_vars, shell, audio_buffer,
                   spectrum_canvas, sample_buffer, live,
                   captured, steps_left, call_vars>>

\* OzScopeWasm::update: nothing without a capture or on an empty batch.
WasmUpdate ==
    /\ shell = "wasm"
    /\ audio_capture
    /\ steps_left > 0
    /\ \E n \in BatchLens :
        /\ audio_buffer' = IF n > 0
                           THEN AppendAndTrim(audio_buffer, Batch(captured, n),
                                              time_per_division, sample_rate)
                           ELSE audio_buffer
        /\ samples' = IF n > 0 THEN audio_buffer' ELSE samples
        /\ captured' = captured + n
        /\ last_op' = IF n > 0 THEN "append" ELSE "tick"
    /\ steps_left' = steps_left - 1
    /\ UNCHANGED <<time_per_division, volts_per_division, sample_rate, trig_vars,
                   canvas_vars, shell, audio_capture, spectrum_canvas,
                   sample_buffer, live, call_vars>>

\* OzScopeWasm::render, with the renderer initialised.
Render ==
    /\ shell = "wasm"
    /\ live' = GetDisplaySamples(samples, time_per_division, volts_per_division,
                                 sample_rate, enabled, edge, level)
    /\ last_op' = "render"
    /\ UNCHANGED <<wave_vars, trig_vars, canvas_vars, shell, audio_capture,
                   audio_buffer, spectrum_canvas, sample_buffer, captured, steps_left,
                   call_vars>>

\* The setters of OzScopeWasm: the fields are assigned directly.
WasmSet(tpd, vpd, tr) ==
    /\ shell = "wasm"
    /\ steps_left > 0
    /\ time_per_division' = tpd
    /\ volts_per_division' = vpd
    /\ enabled' = tr.enabled
    /\ edge' = tr.edge
    /\ level' = tr.level
    /\ steps_left' = steps_left - 1
    /\ last_op' = "intent"
    /\ UNCHANGED <<samples, sample_rate, canvas_vars, shell_vars, captured, call_vars>>

\* Values set_time_per_div is called with: 5e-6 s, 1e-5 s, 0.001 s.
TimeScaleSetterInputs == {8, MinTimePerDivision, DefaultTimePerDivision}

SetTimePerDiv ==
    \E value \in TimeScaleSetterInputs :
        WasmSet(value, volts_per_division, Trig)

\* Values set_volts_per_div is called with: 0.005 V, 0.01 V, 0.5 V.
VoltScaleSetterInputs == {8, MinVoltsPerDivision, DefaultVoltsPerDivision}

SetVoltsPerDiv ==
    \E value \in VoltScaleSetterInputs :
        WasmSet(time_per_division, value, Trig)

SetTriggerEnabled ==
    \E value \in BOOLEAN :
        WasmSet(time_per_division, volts_per_division, [Trig EXCEPT !.enabled = value])

SetTriggerLevel ==
    \E value \in LevelMessageInputs :
        WasmSet(time_per_division, volts_per_division, [Trig EXCEPT !.level = value])

---------------------------------------------------------------------------
(* The specifications of the shells: ticks with the time scale intents,    *)
(* ticks with the trigger intents, and the trigger intents alone.          *)

Tick == AudioUpdate \/ Update \/ WasmUpdate \/ InitAudio \/ Render

TimeScaleIntent ==
    \/ MsgIncreaseTimeScale
    \/ MsgDecreaseTimeScale
    \/ MsgSetTimeScale
    \/ KeyArrowRight
    \/ KeyArrowLeft
    \/ SetTimePerDiv

TriggerIntent ==
    \/ MsgToggleTrigger
    \/ MsgToggleTriggerEdge
    \/ MsgIncreaseTriggerLevel
    \/ MsgDecreaseTriggerLevel
    \/ MsgSetTriggerLevel
    \/ KeyT
    \/ KeyBracketRight
    \/ KeyBracketLeft
    \/ SetTriggerEnabled
    \/ SetTriggerLevel

VoltageScaleIntent ==
    \/ MsgIncreaseVoltageScale
    \/ MsgDecreaseVoltageScale
    \/ MsgSetVoltageScale
    \/ KeyArrowUp
    \/ KeyArrowDown
    \/ SetVoltsPerDiv

InitTicks == InitShells(MaxSteps)
InitIntents == InitShells(MaxIntents)

NextBuffer == Tick \/ TimeScaleIntent
SpecBuffer == InitTicks /\ [][NextBuffer]_vars

NextTrigger == Tick \/ TriggerIntent
SpecTrigger == InitTicks /\ [][NextTrigger]_vars

NextLevel == TriggerIntent
SpecLevel == InitIntents /\ [][NextLevel]_vars

InitScaleIntents == InitShells(MaxScaleIntents)

NextScale == TimeScaleIntent \/ VoltageScaleIntent
SpecScale == InitScaleIntents /\ [][NextScale]_vars

---------------------------------------------------------------------------
(* The scale steps of WaveformData called directly, in any order, from      *)
(* WaveformData::new, as test_scale_value_limits does.                     *)

InitScales ==
    /\ shell = "core"
    /\ audio_capture = FALSE
    /\ audio_buffer = <<>>
    /\ spectrum_canvas = NewSpectrumCanvas
    /\ sample_buffer = <<>>
    /\ samples = <<>>
    /\ time_per_division = DefaultTimePerDivision
    /\ volts_per_division = DefaultVoltsPerDivision
    /\ sample_rate = DefaultSampleRate
    /\ enabled = DefaultTrigger.enabled
    /\ edge = DefaultTrigger.edge
    /\ level = DefaultTrigger.level
    /\ history = <<>>
    /\ persistence_enabled = TRUE
    /\ persistence_frames = DefaultPersistenceFrames
    /\ live = <<>>
    /\ captured = 0
    /\ steps_left = 0
    /\ last_op = "none"
    /\ called = "none"
    /\ ret = NoCall

\* A call of one of the four scale steps: the new scales, and the method called.
CallScaleStep(method, tpd, vpd) ==
    /\ shell = "core"
    /\ time_per_division' = tpd
    /\ volts_per_division' = vpd
    /\ called' = method
    /\ UNCHANGED <<samples, sample_rate, trig_vars, canvas_vars, shell_vars,
                   count_vars, ret>>

CallIncreaseTimeScale ==
    /\ IncreaseScale(time_per_division) <= MaxTimePerDivision
    /\ CallScaleStep("increase_time_scale", IncreaseScale(time_per_division),
                     volts_per_division)

CallDecreaseTimeScale ==
    CallScaleStep("decrease_time_scale", DecreaseTimeScale(time_per_division),
                  volts_per_division)

CallIncreaseVoltageScale ==
    /\ IncreaseScale(volts_per_division) <= MaxVoltsPerDivision
    /\ CallScaleStep("increase_voltage_scale", time_per_division,
                     IncreaseScale(volts_per_division))

CallDecreaseVoltageScale ==
    CallScaleStep("decrease_voltage_scale", time_per_division,
                  DecreaseVoltageScale(volts_per_division))

NextFloor ==
    \/ CallIncreaseTimeScale
    \/ CallDecreaseTimeScale
    \/ CallIncreaseVoltageScale
    \/ CallDecreaseVoltageScale

SpecFloor == InitScales /\ [][NextFloor]_vars

---------------------------------------------------------------------------
(* The methods of WaveformCanvas called in any order, with small point      *)
(* lists as in the tests of ui/mod.rs, and the persistence controls of      *)
(* handle_control.                                                          *)

\* What a call of a canvas method was given and found: the canvas before the
\* call and the arguments.
CanvasCall(points, frames) ==
    [history |-> history, persistence_enabled |-> persistence_enabled,
     persistence_frames |-> persistence_frames, points |-> points, frames |-> frames]

\* The k-th point list handed to add_to_history: vec![(0.0, k / 10)].
Entry(k) == << <<Frac(0, 1), Frac(k, 10)>> >>

InitCanvasWith(depths, budget) ==
    /\ shell = "desktop"
    /\ audio_capture = FALSE
    /\ audio_buffer = <<>>
    /\ spectrum_canvas = NewSpectrumCanvas
    /\ sample_buffer = <<>>
    /\ samples = <<>>
    /\ time_per_division = DefaultTimePerDivision
    /\ volts_per_division = DefaultVoltsPerDivision
    /\ sample_rate = DefaultSampleRate
    /\ enabled = DefaultTrigger.enabled
    /\ edge = DefaultTrigger.edge
    /\ level = DefaultTrigger.level
    /\ history = <<>>
    /\ persistence_enabled = TRUE
    /\ persistence_frames \in depths
    /\ live = <<>>
    /\ captured = 0
    /\ steps_left = budget
    /\ last_op = "none"
    /\ called = "none"
    /\ ret = NoCall

\* add_to_history with an empty point list or the next entry; `captured` counts
\* the non-empty point lists handed in.
CallAddToHistory ==
    /\ shell = "desktop"
    /\ steps_left > 0
    /\ \E points \in {<<>>, Entry(captured + 1)} :
        /\ history' = AddToHistory(history, points, persistence_enabled,
                                   persistence_frames)
        /\ captured' = IF points # <<>> THEN captured + 1 ELSE captured
        /\ ret' = CanvasCall(points, persistence_frames)
    /\ called' = "add_to_history"
    /\ steps_left' = steps_left - 1
    /\ UNCHANGED <<wave_vars, trig_vars, persistence_enabled, persistence_frames,
                   shell_vars, last_op>>

\* set_persistence_frames(frames), directly or from handle_control.
CanvasSetFrames(frames) ==
    /\ shell = "desktop"
    /\ steps_left > 0
    /\ history' = SetPersistenceFrames(history, frames).history
    /\ persistence_frames' = SetPersistenceFrames(history, frames).persistence_frames
    /\ called' = "set_persistence_frames"
    /\ ret' = CanvasCall(<<>>, frames)
    /\ steps_left' = steps_left - 1
    /\ UNCHANGED <<wave_vars, trig_vars, persistence_enabled, shell_vars, captured,
                   last_op>>

\* Depths requested directly: 0, 1, 2, 3, 30, 31, 100.
FramesInputs == {0, 1, 2, 3, MaxPersistenceFrames, MaxPersistenceFrames + 1, 100}

CallSetPersistenceFrames == \E frames \in FramesInputs : CanvasSetFrames(frames)

MsgIncreasePersistence == CanvasSetFrames(persistence_frames + 1)

MsgDecreasePersistence == CanvasSetFrames(SaturatingSub(persistence_frames, 1))

\* Depths the persistence slider sends (a u8 in 1 ..= 30).
FramesSliderInputs == {1, 2, MaxPersistenceFrames}

MsgSetPersistenceFrames == \E value \in FramesSliderInputs : CanvasSetFrames(value)

\* toggle_persistence, directly or from ControlMessage::TogglePersistence.
MsgTogglePersistence ==
    /\ shell = "desktop"
    /\ steps_left > 0
    /\ history' = TogglePersistence(history, persistence_enabled).history
    /\ persistence_enabled' =
           TogglePersistence(history, persistence_enabled).persistence_enabled
    /\ called' = "toggle_persistence"
    /\ ret' = CanvasCall(<<>>, persistence_frames)
    /\ steps_left' = steps_left - 1
    /\ UNCHANGED <<wave_vars, trig_vars, persistence_frames, shell_vars, captured,
                   last_op>>

InitCanvas == InitCanvasWith({DefaultPersistenceFrames}, MaxCanvasCalls)

NextCanvas ==
    \/ CallAddToHistory
    \/ CallSetPersistenceFrames
    \/ MsgIncreasePersistence
    \/ MsgDecreasePersistence
    \/ MsgSetPersistenceFrames
    \/ MsgTogglePersistence

SpecCanvas == InitCanvas /\ [][NextCanvas]_vars

\* A canvas of any depth, persistence enabled, history empty, and then only
\* add_to_history.
InitFifo == InitCanvasWith(MinPersistenceFrames..MaxPersistenceFrames, MaxAdds)

NextFifo == CallAddToHistory

SpecFifo == InitFifo /\ [][NextFifo]_vars

---------------------------------------------------------------------------
(* Direct calls of compute_spectrum.                                       *)

\* n samples of silence.
Silence(n) == [k \in 1..n |-> 0]

\* Lengths of the silences drawn as inputs: a transform of 8, of 1024, of 4096
\* exactly, and one the cap cuts.
SilenceLens == {5, 680, MaxFftSize, MaxFftSize + 1}

SpectrumInputs ==
    SeqsUpTo(SampleInputs, ExactFftSize) \cup {Silence(n) : n \in SilenceLens}

InitSpectrum ==
    /\ shell = "desktop"
    /\ audio_capture = FALSE
    /\ audio_buffer = <<>>
    /\ spectrum_canvas = NewSpectrumCanvas
    /\ sample_buffer = <<>>
    /\ samples \in SpectrumInputs
    /\ time_per_division = DefaultTimePerDivision
    /\ volts_per_division = DefaultVoltsPerDivision
    /\ sample_rate = DefaultSampleRate
    /\ enabled = DefaultTrigger.enabled
    /\ edge = DefaultTrigger.edge
    /\ level = DefaultTrigger.level
    /\ history = <<>>
    /\ persistence_enabled = TRUE
    /\ persistence_frames = DefaultPersistenceFrames
    /\ live = <<>>
    /\ captured = 0
    /\ steps_left = 0
    /\ last_op = "none"
    /\ called = "none"
    /\ ret = NoCall

CallComputeSpectrum ==
    /\ shell = "desktop"
    /\ called' = "compute_spectrum"
    /\ ret' = SpectrumCall(samples)
    /\ UNCHANGED <<wave_vars, trig_vars, canvas_vars, shell_vars, count_vars>>

NextSpectrum == CallComputeSpectrum

SpecSpectrum == InitSpectrum /\ [][NextSpectrum]_vars

---------------------------------------------------------------------------
(* The measurements of WaveformData (waveform.rs).  An Option<f32> is a     *)
(* record: `some` tells Some from None, `value` is the exact quotient.      *)

None == [some |-> FALSE, value |-> <<0, 1>>]
Some(v) == [some |-> TRUE, value |-> v]

RisingCrossing(prev, curr) == prev < 0 /\ curr >= 0
FallingCrossing(prev, curr) == prev > 0 /\ curr <= 0

\* A mutant: calculate_duty_cycle looks for rising crossings only.
DutyCrossingRisingOnly(prev, curr) == RisingCrossing(prev, curr)

\* The crossing test of calculate_duty_cycle.
DutyCrossing(prev, curr) == RisingCrossing(prev, curr) \/ FallingCrossing(prev, curr)

\* The crossings vector after the loop has run over the indices 1 .. i - 1.
RECURSIVE Crossings(_, _, _)
Crossings(s, i, rising_only) ==
    IF i <= 1 THEN <<>>
    ELSE LET before == Crossings(s, i - 1, rising_only)
             hit == IF rising_only THEN RisingCrossing(At(s, i - 2), At(s, i - 1))
                    ELSE DutyCrossing(At(s, i - 2), At(s, i - 1))
         IN  IF hit THEN Append(before, i - 1) ELSE before

\* A mutant: the first crossing counts as a period from the start of the buffer.
RECURSIVE TotalPeriodFromStart(_, _)
TotalPeriodFromStart(crossings, n) ==
    IF n <= 0 THEN 0
    ELSE TotalPeriodFromStart(crossings, n - 1)
         + (crossings[n] - (IF n = 1 THEN 0 ELSE crossings[n - 1]))

\* total_period after the loop over crossings[1 ..].
RECURSIVE TotalPeriod(_, _)
TotalPeriod(crossings, n) ==
    IF n <= 1 THEN 0
    ELSE TotalPeriod(crossings, n - 1) + (crossings[n] - crossings[n - 1])

\* calculate_frequency: 1 / ((total_period / count) / sample_rate) when that
\* period is positive; a sample rate of 0 makes the period infinite and the
\* frequency 0.
CalculateFrequency(s, rate) ==
    IF Len(s) < 3 THEN None
    ELSE LET crossings == Crossings(s, Len(s), TRUE)
             total_period == TotalPeriod(crossings, Len(crossings))
             count == Len(crossings) - 1
         IN  IF Len(crossings) < 2 THEN None
             ELSE IF count = 0 THEN None
             ELSE IF total_period > 0 /\ rate > 0
                  THEN Some(Frac(rate * count, total_period))
                  ELSE IF total_period > 0 THEN Some(Frac(0, 1)) ELSE None

RECURSIVE FoldMin(_, _)
FoldMin(s, n) == IF n = 1 THEN s[1] ELSE Min(FoldMin(s, n - 1), s[n])

RECURSIVE FoldMax(_, _)
FoldMax(s, n) == IF n = 1 THEN s[1] ELSE Max(FoldMax(s, n - 1), s[n])

\* calculate_peak_to_peak, in voltage units.
CalculatePeakToPeak(s) ==
    IF s = <<>> THEN None ELSE Some(FoldMax(s, Len(s)) - FoldMin(s, Len(s)))

RECURSIVE SumOfSquares(_, _)
SumOfSquares(s, n) == IF n = 0 THEN 0 ELSE SumOfSquares(s, n - 1) + s[n] * s[n]

\* calculate_rms: the value kept is mean_square, the square of the result, in
\* squared voltage units.
CalculateRms(s) ==
    IF s = <<>> THEN None ELSE Some(Frac(SumOfSquares(s, Len(s)), Len(s)))

\* A mutant: samples at zero count as above zero.
AboveZeroOrAt(s) == Cardinality({i \in 1..Len(s) : s[i] >= 0})

\* above_zero: filter(x > 0.0).count()
AboveZero(s) == Cardinality({i \in 1..Len(s) : s[i] > 0})

\* calculate_duty_cycle, in percent.
CalculateDutyCycle(s) ==
    IF Len(s) < 2 THEN None
    ELSE LET crossings == Crossings(s, Len(s), FALSE)
             above_zero == AboveZero(s)
         IN  IF Len(crossings) < 2 THEN None
             ELSE Some(Frac(above_zero * 100, Len(s)))

\* A square wave of uneven periods: rising crossings at 1, 3 and 6.
UnevenSquare == <<-800, 800, -800, 800, 800, -800, 800>>

MeasureInputs == SampleSetInputs \cup {UnevenSquare}

InitMeasure ==
    /\ shell = "core"
    /\ audio_capture = FALSE
    /\ audio_buffer = <<>>
    /\ spectrum_canvas = NewSpectrumCanvas
    /\ sample_buffer = <<>>
    /\ samples \in MeasureInputs
    /\ time_per_division = DefaultTimePerDivision
    /\ volts_per_division = DefaultVoltsPerDivision
    /\ sample_rate = DefaultSampleRate
    /\ enabled = DefaultTrigger.enabled
    /\ edge = DefaultTrigger.edge
    /\ level = DefaultTrigger.level
    /\ history = <<>>
    /\ persistence_enabled = TRUE
    /\ persistence_frames = DefaultPersistenceFrames
    /\ live = <<>>
    /\ captured = 0
    /\ steps_left = 0
    /\ last_op = "none"
    /\ called = "none"
    /\ ret = NoCall

\* A call of a measurement: the method and what it returned.
CallMeasurement(method, result) ==
    /\ shell = "core"
    /\ called' = method
    /\ ret' = result
    /\ UNCHANGED <<wave_vars, trig_vars, canvas_vars, shell_vars, count_vars>>

CallCalculateFrequency ==
    CallMeasurement("calculate_frequency", CalculateFrequency(samples, sample_rate))

CallCalculatePeakToPeak ==
    CallMeasurement("calculate_peak_to_peak", CalculatePeakToPeak(samples))

CallCalculateRms == CallMeasurement("calculate_rms", CalculateRms(samples))

CallCalculateDutyCycle ==
    CallMeasurement("calculate_duty_cycle", CalculateDutyCycle(samples))

NextMeasure ==
    \/ CallCalculateFrequency
    \/ CallCalculatePeakToPeak
    \/ CallCalculateRms
    \/ CallCalculateDutyCycle

SpecMeasure == InitMeasure /\ [][NextMeasure]_vars

---------------------------------------------------------------------------
(* The drawing of the persistence history: WaveformWithHistory::draw of    *)
(* the desktop shell and WaveformRenderer::render of the winit shell.      *)
(* Opacities are exact fractions.                                          *)

\* age_factor * 0.6 with age_factor = (i + 1) / (history_count + 1), i from 0.
DrawAlpha(i, history_count) == Frac((i + 1) * 6, (history_count + 1) * 10)

\* (frame_idx + 1.0) / num_frames, frame_idx from 0.
RenderAlpha(frame_idx, num_frames) == Frac(frame_idx + 1, num_frames)

\* One history entry on the screen: whether it is drawn, and its opacity.
Drawn(alpha) == [drawn |-> TRUE, alpha |-> alpha]
Skipped == [drawn |-> FALSE, alpha |-> <<0, 1>>]

\* The loop of draw over self.history; nothing when persistence is disabled.
DrawHistory(h, pe) ==
    IF pe THEN [k \in 1..Len(h) |-> Drawn(DrawAlpha(k - 1, Len(h)))] ELSE <<>>

\* The loop of render over waveform_history; entries of fewer than 2 points
\* are skipped.
RenderHistory(h) ==
    [k \in 1..Len(h) |->
        IF Len(h[k]) < 2 THEN Skipped ELSE Drawn(RenderAlpha(k - 1, Len(h)))]

\* The k-th trace of two points: vec![(0.0, k / 10), (0.5, k / 10)].
Trace(k) == <<Entry(k)[1], <<Frac(1, 2), Frac(k, 10)>> >>

InitAlpha ==
    /\ shell \in {"desktop", "gui_v2"}
    /\ audio_capture = FALSE
    /\ audio_buffer = <<>>
    /\ spectrum_canvas = NewSpectrumCanvas
    /\ sample_buffer = <<>>
    /\ samples = <<>>
    /\ time_per_division = DefaultTimePerDivision
    /\ volts_per_division = DefaultVoltsPerDivision
    /\ sample_rate = DefaultSampleRate
    /\ enabled = DefaultTrigger.enabled
    /\ edge = DefaultTrigger.edge
    /\ level = DefaultTrigger.level
    /\ history = <<>>
    /\ persistence_enabled = TRUE
    /\ persistence_frames = DefaultPersistenceFrames
    /\ live = <<>>
    /\ captured = 0
    /\ steps_left = MaxCanvasCalls
    /\ last_op = "none"
    /\ called = "none"
    /\ ret = NoCall

\* AppState::add_to_history (gui-v2) with an empty point list, a single point
\* or a trace of two points.
CallAddToHistoryV2 ==
    /\ shell = "gui_v2"
    /\ steps_left > 0
    /\ \E points \in {<<>>, Entry(captured + 1), Trace(captured + 1)} :
        /\ history' = AddToHistoryV2(history, points)
        /\ captured' = IF points # <<>> THEN captured + 1 ELSE captured
        /\ ret' = CanvasCall(points, persistence_frames)
    /\ called' = "add_to_history"
    /\ steps_left' = steps_left - 1
    /\ UNCHANGED <<wave_vars, trig_vars, persistence_enabled, persistence_frames,
                   shell_vars, last_op>>

\* WaveformWithHistory::draw: the opacities of the history entries.
CallDraw ==
    /\ shell = "desktop"
    /\ called' = "draw"
    /\ ret' = [alphas |-> DrawHistory(history, persistence_enabled)]
    /\ UNCHANGED <<wave_vars, trig_vars, canvas_vars, shell_vars, count_vars>>

\* WaveformRenderer::render: the opacities of the history entries.
CallRender ==
    /\ shell = "gui_v2"
    /\ called' = "render"
    /\ ret' = [alphas |-> RenderHistory(history)]
    /\ UNCHANGED <<wave_vars, trig_vars, canvas_vars, shell_vars, count_vars>>

NextAlpha ==
    \/ CallAddToHistory
    \/ CallAddToHistoryV2
    \/ MsgTogglePersistence
    \/ CallDraw
    \/ CallRender

SpecAlpha == InitAlpha /\ [][NextAlpha]_vars

---------------------------------------------------------------------------
(* The handoff of WebAudioCapture (src/wasm/src/audio.rs): the              *)
(* onaudioprocess callbacks of the script processor append to               *)
(* sample_buffer, read_samples drains it.  The browser runs both on one     *)
(* thread, each to completion, in any order.  A sample is its arrival       *)
(* number, so that a sample returned twice or out of order shows.           *)

\* buffer_size of the script processor: the samples of one callback.
ScriptBufferSize == 4096

\* `if buffer.len() > 48000`
MaxSampleBuffer == 48000

\* Callbacks and read_samples calls of one run.
MaxCallbacks == 12
MaxReads == 2

\* usize::MAX, the max_samples of the shells, as the largest integer of the
\* model: any value of at least the buffer's length takes the whole buffer.
UsizeMax == 2^30 + (2^30 - 1)

\* max_samples of a call: 0, 1, usize::MAX.
MaxSamplesInputs == {0, 1, UsizeMax}

\* input_data of the callback after `from` samples arrived.
InputData(from) == [k \in 1..ScriptBufferSize |-> from + k]

\* The callback: extend_from_slice, then drain the oldest beyond 48000.
OnAudioProcessBuffer(buffer, input_data) ==
    LET extended == buffer \o input_data
        len == Len(extended)
    IN  IF len > MaxSampleBuffer
        THEN SubSeq(extended, len - MaxSampleBuffer + 1, len)
        ELSE extended

\* A mutant: the samples are copied out and stay in the buffer.
ReadSamplesCopies(buffer, max_samples) ==
    LET take_count == Min(max_samples, Len(buffer))
    IN  [samples |-> SubSeq(buffer, 1, take_count), buffer |-> buffer]

\* read_samples: buffer.drain(0..take_count).collect(), and what is left.
ReadSamples(buffer, max_samples) ==
    LET take_count == Min(max_samples, Len(buffer))
    IN  [samples |-> SubSeq(buffer, 1, take_count),
         buffer |-> SubSeq(buffer, take_count + 1, Len(buffer))]

\* The arrival number of the last sample any read_samples call returned so far.
LastReturned ==
    IF called # "read_samples" THEN 0
    ELSE IF ret.samples = <<>> THEN ret.last_returned
    ELSE ret.samples[Len(ret.samples)]

\* WebAudioCapture::new succeeded: the buffer is empty, callbacks may come.
InitHandoff ==
    /\ shell = "wasm"
    /\ audio_capture = TRUE
    /\ audio_buffer = <<>>
    /\ spectrum_canvas = NewSpectrumCanvas
    /\ sample_buffer = <<>>
    /\ samples = <<>>
    /\ time_per_division = DefaultTimePerDivision
    /\ volts_per_division = DefaultVoltsPerDivision
    /\ sample_rate = DefaultSampleRate
    /\ enabled = DefaultTrigger.enabled
    /\ edge = DefaultTrigger.edge
    /\ level = DefaultTrigger.level
    /\ history = <<>>
    /\ persistence_enabled = TRUE
    /\ persistence_frames = DefaultPersistenceFrames
    /\ live = <<>>
    /\ captured = 0
    /\ steps_left = MaxReads
    /\ last_op = "none"
    /\ called = "none"
    /\ ret = NoCall

\* The onaudioprocess closure; `captured` counts the samples that arrived.
OnAudioProcess ==
    /\ shell = "wasm"
    /\ audio_capture
    /\ captured < MaxCallbacks * ScriptBufferSize
    /\ sample_buffer' = OnAudioProcessBuffer(sample_buffer, InputData(captured))
    /\ captured' = captured + ScriptBufferSize
    /\ last_op' = "callback"
    /\ UNCHANGED <<wave_vars, trig_vars, canvas_vars, shell, audio_capture,
                   audio_buffer, spectrum_canvas, live, steps_left, call_vars>>

\* read_samples(max_samples); the result keeps the buffer length the call saw
\* and the last sample returned by the calls before it.
CallReadSamples ==
    /\ shell = "wasm"
    /\ audio_capture
    /\ steps_left > 0
    /\ \E max_samples \in MaxSamplesInputs :
        /\ sample_buffer' = ReadSamples(sample_buffer, max_samples).buffer
        /\ ret' = [max_samples |-> max_samples,
                   buffered |-> Len(sample_buffer),
                   samples |-> ReadSamples(sample_buffer, max_samples).samples,
                   last_returned |-> LastReturned]
    /\ called' = "read_samples"
    /\ steps_left' = steps_left - 1
    /\ UNCHANGED <<wave_vars, trig_vars, canvas_vars, shell, audio_capture,
                   audio_buffer, spectrum_canvas, live, captured, last_op>>

NextHandoff == OnAudioProcess \/ CallReadSamples

SpecHandoff == InitHandoff /\ [][NextHandoff]_vars

---------------------------------------------------------------------------
(* Claims about the core functions, checked under SpecCore.                *)

\* The edge predicate as the specification words it, at buffer index i >= 1.
EdgeAt(s, i, ed, lv) ==
    \/ ed = "Rising" /\ At(s, i - 1) < lv /\ At(s, i) >= lv
    \/ ed = "Falling" /\ At(s, i - 1) > lv /\ At(s, i) <= lv

EdgeIndices(s, ed, lv) == {i \in 1..(Len(s) - 1) : EdgeAt(s, i, ed, lv)}

SetMin(S) == CHOOSE m \in S : \A n \in S : m <= n

\* C3: whenever some index i >= 1 satisfies the edge predicate, find_trigger_point
\* returns the smallest such index; it returns 3 for the rising ramp and 2 for
\* the falling ramp of the unit tests at level 0.25 V.
C3_FirstEdge ==
    called = "find_trigger_point" =>
        /\ EdgeIndices(samples, edge, level) # {} =>
               ret.trigger_index = SetMin(EdgeIndices(samples, edge, level))
        /\ samples = RisingRamp /\ edge = "Rising" /\ level = 400 => ret.trigger_index = 3
        /\ samples = FallingRamp /\ edge = "Falling" /\ level = 400 => ret.trigger_index = 2

\* A call on a buffer with two rising edges, which returned the first of them.
C3_Witness ==
    /\ called = "find_trigger_point"
    /\ Cardinality(EdgeIndices(samples, edge, level)) >= 2
    /\ edge = "Rising"
    /\ ret.trigger_index = 1

\* C4: when no adjacent pair of samples satisfies the edge predicate,
\* find_trigger_point returns 0, and get_display_samples with triggering enabled
\* then starts the display window at buffer index 0.
C4_NoEdgeFallback ==
    EdgeIndices(samples, edge, level) = {} =>
        /\ called = "find_trigger_point" => ret.trigger_index = 0
        /\ called = "get_display_samples" /\ enabled =>
               ret.trigger_index = 0 /\ ret.start_index = 0

\* A triggered display call on the flat signal of the unit test, which has no
\* edge: the window starts at index 0 and is not empty.
C4_Witness ==
    /\ called = "get_display_samples"
    /\ enabled
    /\ samples = FlatSignal
    /\ EdgeIndices(samples, edge, level) = {}
    /\ ret.start_index = 0
    /\ ret.points # <<>>

\* C5: every display point returned by get_display_samples has 0 <= x <= 1.
C5_XInUnitInterval ==
    called = "get_display_samples" =>
        \A k \in 1..Len(ret.points) :
            LET x == ret.points[k][1]
            IN  FracLeq(<<0, 1>>, x) /\ FracLeq(x, <<1, 1>>)

\* A display call whose window starts inside the buffer and holds several points.
C5_Witness ==
    /\ called = "get_display_samples"
    /\ ret.start_index > 0
    /\ Len(ret.points) >= 2
    /\ ret.points[Len(ret.points)][1] # <<0, 1>>

\* C6: get_display_samples returns at most samples_per_screen points, and at
\* most as many points as the buffer holds samples.
C6_LengthBounded ==
    called = "get_display_samples" =>
        /\ Len(ret.points) <= CalculateSamplesPerScreen(time_per_division, sample_rate)
        /\ Len(ret.points) <= Len(samples)

\* A display call on a buffer longer than a screen, which returned a full screen.
C6_Witness ==
    /\ called = "get_display_samples"
    /\ ret.samples_per_screen > 0
    /\ Len(samples) > ret.samples_per_screen
    /\ Len(ret.points) = ret.samples_per_screen

LastN(s, n) == [k \in 1..n |-> s[Len(s) - n + k]]

\* C8: with triggering disabled, get_display_samples returns one point per sample
\* of the last min(len(buffer), samples_per_screen) samples, in buffer order, the
\* k-th point having x = k / samples_per_screen and y = sample / volts_per_division.
C8_FreeRunShowsNewest ==
    called = "get_display_samples" /\ ~enabled =>
        LET sps == ret.samples_per_screen
            n == Min(Len(samples), sps)
            newest == LastN(samples, n)
        IN  /\ Len(ret.points) = n
            /\ \A k \in 1..n :
                   /\ ret.points[k][1] = Frac(k - 1, sps)
                   /\ ret.points[k][2] = Frac(newest[k], volts_per_division)

\* A free-run display call on a buffer longer than a screen whose oldest and
\* newest samples differ.
C8_Witness ==
    /\ called = "get_display_samples"
    /\ ~enabled
    /\ ret.samples_per_screen > 0
    /\ Len(samples) > ret.samples_per_screen
    /\ samples[1] # samples[Len(samples)]
    /\ Len(ret.points) = ret.samples_per_screen

\* time_per_division x 10 x sample_rate, rounded to the nearest whole number.
RoundedProduct(tpd, rate) ==
    CHOOSE n \in 0..(tpd * Divisions * rate) \div TimeUnitsPerSecond + 1 :
        /\ 2 * n * TimeUnitsPerSecond <= 2 * tpd * Divisions * rate + TimeUnitsPerSecond
        /\ 2 * tpd * Divisions * rate + TimeUnitsPerSecond < 2 * (n + 1) * TimeUnitsPerSecond

\* C9 as claimed: calculate_samples_per_screen returns
\* round(time_per_division x 10 x sample_rate).
C9_Rounds ==
    called = "calculate_samples_per_screen" =>
        ret.samples_per_screen = RoundedProduct(time_per_division, sample_rate)

\* C9 as amended: calculate_samples_per_screen returns
\* time_per_division x 10 x sample_rate truncated toward zero: the largest whole
\* number n with n <= time_per_division x 10 x sample_rate (480 for the defaults).
C9_Truncates ==
    called = "calculate_samples_per_screen" =>
        LET n == ret.samples_per_screen
            product == time_per_division * Divisions * sample_rate
        IN  /\ n >= 0
            /\ n * TimeUnitsPerSecond <= product
            /\ product < (n + 1) * TimeUnitsPerSecond
            /\ time_per_division = DefaultTimePerDivision
                   /\ sample_rate = DefaultSampleRate => n = 480

\* A call at 1.5625e-5 s per division (7.5 samples per screen), which returned 7.
C9_Witness ==
    /\ called = "calculate_samples_per_screen"
    /\ time_per_division = 25
    /\ ret.samples_per_screen = 7

---------------------------------------------------------------------------
(* Claims about the shells.                                                 *)

\* The capacity of the rolling buffer at the current time scale.
Capacity == CalculateSamplesPerScreen(time_per_division, sample_rate) + Margin

\* C1 as claimed: in every state reached by ticks and time scale intents the
\* rolling buffer holds at most samples_per_screen + 200 samples.
C1_BufferBounded == Len(audio_buffer) <= Capacity

\* C1 as amended: right after a tick that appended a non-empty batch the rolling
\* buffer holds at most samples_per_screen + 200 samples, at the time scale of
\* that tick.
C1_BoundedAfterAppend == last_op = "append" => Len(audio_buffer) <= Capacity

\* A tick appended a batch to a buffer that then was over capacity: the oldest
\* samples were dropped and the buffer is exactly full.
C1_Witness ==
    /\ last_op = "append"
    /\ Len(audio_buffer) = Capacity
    /\ captured > Len(audio_buffer)

\* The points get_display_samples yields for the trigger configuration the
\* intents have set.
PointsOfTriggerConfig ==
    GetDisplaySamples(samples, time_per_division, volts_per_division, sample_rate,
                      enabled, edge, level)

\* C2: the points a tick displays, the live trace and the entry it appends to
\* the persistence history, are those of the trigger configuration the intents
\* have set.  A tick of the browser shell ends with render.
C2_TickUsesTriggerConfig ==
    /\ shell = "desktop" /\ last_op \in {"append", "tick"} =>
           /\ live = PointsOfTriggerConfig
           /\ persistence_enabled /\ PointsOfTriggerConfig # <<>> =>
                  /\ history # <<>>
                  /\ history[Len(history)] = PointsOfTriggerConfig
    /\ shell = "gui_v2" /\ last_op \in {"append", "tick"}
           /\ PointsOfTriggerConfig # <<>> =>
           /\ live = PointsOfTriggerConfig
           /\ history # <<>>
           /\ history[Len(history)] = PointsOfTriggerConfig
    /\ shell = "wasm" /\ last_op = "render" => live = PointsOfTriggerConfig

\* The level set_level stores for v.
Clamped(v) == IF v > MaxLevel THEN MaxLevel ELSE IF v < MinLevel THEN MinLevel ELSE v

\* C10: after any sequence of trigger intents the trigger level lies in
\* [-10 V, 10 V], and set_level stores its argument clamped to that range.
C10_LevelInRange ==
    /\ MinLevel <= level
    /\ level <= MaxLevel
    /\ \A v \in LevelMessageInputs : SetLevel(v) = Clamped(v)

\* C11: after any sequence of scale intents the time scale is at least 1e-5 s
\* per division and the voltage scale at least 0.01 V per division.
C11_ScalesAboveFloor ==
    /\ time_per_division >= MinTimePerDivision
    /\ volts_per_division >= MinVoltsPerDivision

\* What one decrease does to a scale with the given floor: at most twice the
\* floor, it lands exactly on the floor (and stays there); above, it at least
\* halves the scale and stays above the floor.  From any scale the floor is
\* therefore reached within log2(scale / floor) + 1 decreases.
StepsToFloor(before, after, floor) ==
    IF before <= 2 * floor
    THEN after = floor
    ELSE after > floor /\ 2 * after <= before

\* C12: repeated decrease_time_scale reaches exactly 1e-5 s and stays there,
\* repeated decrease_voltage_scale reaches exactly 0.01 V and stays there, and an
\* increase at the floor yields a scale strictly above the floor.
C12_FloorsReachedAndLeft ==
    [][/\ called' = "decrease_time_scale" =>
              StepsToFloor(time_per_division, time_per_division', MinTimePerDivision)
       /\ called' = "decrease_voltage_scale" =>
              StepsToFloor(volts_per_division, volts_per_division', MinVoltsPerDivision)
       /\ called' = "increase_time_scale" /\ time_per_division = MinTimePerDivision =>
              time_per_division' > MinTimePerDivision
       /\ called' = "increase_voltage_scale" /\ volts_per_division = MinVoltsPerDivision =>
              volts_per_division' > MinVoltsPerDivision]_vars

\* Both scales were decreased to their floors, and the time scale was then
\* increased from its floor.
C12_Witness ==
    /\ called = "increase_time_scale"
    /\ time_per_division = 2 * MinTimePerDivision
    /\ volts_per_division = MinVoltsPerDivision

---------------------------------------------------------------------------
(* Claims about the persistence history.                                    *)

\* C13: after any sequence of add_to_history, set_persistence_frames (any
\* requested depth, and the increase and decrease by one) and
\* toggle_persistence, the depth is in [1, 30] and the history holds at most
\* that many entries.
C13_DepthAndLengthBounded ==
    /\ persistence_frames >= 1
    /\ persistence_frames <= 30
    /\ Len(history) <= persistence_frames

\* The depth was lowered to 1 by a request of 0 or a decrease at 1, with an
\* entry in the history.
C13_Witness ==
    /\ called = "set_persistence_frames"
    /\ ret.frames = 0
    /\ persistence_frames = 1
    /\ Len(history) = 1

\* C14: on a canvas of depth d with persistence enabled, after non-empty entries
\* e1 .. en were added in that order to an empty history, the history is exactly
\* the last min(n, d) of them, oldest first.
C14_FifoKeepsNewest ==
    LET n == captured
        kept == IF n <= persistence_frames THEN n ELSE persistence_frames
    IN  /\ Len(history) = kept
        /\ \A i \in 1..kept : history[i] = Entry(n - kept + i)

\* test_history_fifo_order: depth 3, four entries added, the first one dropped.
C14_Witness ==
    /\ persistence_frames = 3
    /\ captured = 4
    /\ history = <<Entry(2), Entry(3), Entry(4)>>

\* C15: whenever persistence is disabled the history is empty.
C15_DisabledMeansEmpty == ~persistence_enabled => history = <<>>

\* add_to_history was called with an entry while persistence was disabled, after
\* entries had been recorded.
C15_Witness ==
    /\ ~persistence_enabled
    /\ called = "add_to_history"
    /\ ret.points # <<>>
    /\ captured >= 2

\* C16: set_persistence_frames(n) sets the depth to n clamped into [1, 30], trims
\* the history to its newest min(previous length, new depth) entries in their
\* order, and leaves the enabled flag alone.
C16_SetFramesClampsAndTrims ==
    called = "set_persistence_frames" =>
        LET n == ret.frames
            depth == IF n < 1 THEN 1 ELSE IF n > 30 THEN 30 ELSE n
            before == ret.history
            kept == IF Len(before) <= depth THEN Len(before) ELSE depth
        IN  /\ persistence_frames = depth
            /\ history = LastN(before, kept)
            /\ persistence_enabled = ret.persistence_enabled

\* A history of at least three entries was trimmed to two.
C16_Witness ==
    /\ called = "set_persistence_frames"
    /\ Len(ret.history) >= 3
    /\ persistence_frames = 2
    /\ Len(history) = 2

\* C17: add_to_history(points) changes nothing when persistence is disabled or
\* points is empty; otherwise it puts exactly one entry, points, at the back of
\* the history, after the newest entries the depth leaves room for, and leaves
\* the depth and the enabled flag alone.
C17_AddToHistoryFrame ==
    called = "add_to_history" =>
        /\ persistence_frames = ret.persistence_frames
        /\ persistence_enabled = ret.persistence_enabled
        /\ IF ~ret.persistence_enabled \/ ret.points = <<>>
           THEN history = ret.history
           ELSE LET before == ret.history
                    room == persistence_frames - 1
                    kept == IF Len(before) <= room THEN Len(before) ELSE room
                IN  history = Append(LastN(before, kept), ret.points)

\* An empty point list was handed to a non-empty history with persistence
\* enabled.
C17_Witness ==
    /\ called = "add_to_history"
    /\ ret.persistence_enabled
    /\ ret.points = <<>>
    /\ ret.history # <<>>

---------------------------------------------------------------------------
(* Claims about the spectrum.                                               *)

\* The powers of two up to 8192.
PowersOfTwo == {1, 2, 4, 8, 16, 32, 64, 128, 256, 512, 1024, 2048, 4096, 8192}

\* C18: compute_spectrum returns an empty result for no samples, and for n > 0
\* samples exactly transform_size / 2 values, transform_size being the smaller
\* of 4096 and the least power of two that is at least n; never more than 2048.
C18_SpectrumLength ==
    called = "compute_spectrum" =>
        IF samples = <<>> THEN ret.spectrum = <<>>
        ELSE \E p \in PowersOfTwo :
                /\ p >= Len(samples)
                /\ \A r \in PowersOfTwo : r >= Len(samples) => p <= r
                /\ Len(ret.spectrum) = (IF p < 4096 THEN p ELSE 4096) \div 2
                /\ Len(ret.spectrum) <= 2048

\* The spectrum of 4097 samples: the cap cuts the transform to 4096.
C18_Witness ==
    /\ called = "compute_spectrum"
    /\ Len(samples) = 4097
    /\ Len(ret.spectrum) = 2048

\* C19: every value compute_spectrum returns for a non-empty input is at least
\* -80 dB.
C19_AtLeastMinus80 ==
    called = "compute_spectrum" /\ samples # <<>> =>
        \A k \in 1..Len(ret.spectrum) : ret.spectrum[k] >= -80

---------------------------------------------------------------------------
(* Claims about the measurements.                                           *)

\* The number of rising zero-crossings of the sample set, and of its
\* zero-crossings of either direction.
RisingCount ==
    Cardinality({i \in 2..Len(samples) : samples[i - 1] < 0 /\ samples[i] >= 0})

CrossingCount ==
    Cardinality({i \in 2..Len(samples) :
                    \/ samples[i - 1] < 0 /\ samples[i] >= 0
                    \/ samples[i - 1] > 0 /\ samples[i] <= 0})

\* C20: calculate_peak_to_peak and calculate_rms return none exactly for the
\* empty sample set, calculate_frequency exactly with fewer than 2 rising
\* zero-crossings, calculate_duty_cycle exactly with fewer than 2
\* zero-crossings; otherwise each returns a value, and none fails.
C20_NoneOnInsufficientData ==
    /\ called \in {"calculate_peak_to_peak", "calculate_rms"} =>
           (ret.some <=> samples # <<>>)
    /\ called = "calculate_frequency" => (ret.some <=> RisingCount >= 2)
    /\ called = "calculate_duty_cycle" => (ret.some <=> CrossingCount >= 2)

\* calculate_duty_cycle returned a value for a sample set with one falling and
\* one rising crossing, for which calculate_frequency has none.
C20_Witness ==
    /\ called = "calculate_duty_cycle"
    /\ ret.some
    /\ RisingCount = 1
    /\ CrossingCount = 2

\* The indices (from 1) of the rising zero-crossings of the sample set.
RisingIndices == {i \in 2..Len(samples) : samples[i - 1] < 0 /\ samples[i] >= 0}

SetMax(S) == CHOOSE x \in S : \A y \in S : y <= x

\* C21: with k >= 2 rising zero-crossings at c1 < ... < ck, calculate_frequency
\* returns sample_rate x (k - 1) / (ck - c1).
C21_FrequencyOfMeanPeriod ==
    called = "calculate_frequency" /\ RisingCount >= 2 =>
        /\ ret.some
        /\ ret.value[2] > 0
        /\ ret.value[1] * (SetMax(RisingIndices) - SetMin(RisingIndices))
               = ret.value[2] * sample_rate * (RisingCount - 1)

\* Three crossings over five samples at 48 kHz: 19200 Hz.
C21_Witness ==
    /\ called = "calculate_frequency"
    /\ RisingCount = 3
    /\ ret = Some(<<19200, 1>>)

\* C22: with at least 2 zero-crossings calculate_duty_cycle returns
\* 100 x (number of samples > 0) / (number of samples), a value in [0, 100].
C22_DutyCycleOfPositiveSamples ==
    called = "calculate_duty_cycle" /\ CrossingCount >= 2 =>
        /\ ret.some
        /\ ret.value[2] > 0
        /\ ret.value[1] * Len(samples)
               = ret.value[2] * 100 * Cardinality({i \in 1..Len(samples) : samples[i] > 0})
        /\ ret.value[1] >= 0
        /\ ret.value[1] <= 100 * ret.value[2]

\* A sample set with a sample at exactly 0 V between its crossings: one of four
\* samples is above zero, 25 %.
C22_Witness ==
    /\ called = "calculate_duty_cycle"
    /\ samples = <<800, 0, -800, 0>>
    /\ ret = Some(<<25, 1>>)

\* The batch a tick appends: what read_samples returned, or in the winit shell
\* without a capture device the 800 samples of generate_test_signal.
AppendedBatch ==
    IF audio_capture THEN Batch(captured, captured' - captured)
    ELSE TestSignal(Len(audio_buffer), 800, 1600)

FirstEdge == SetMin(EdgeIndices(samples, edge, level))

\* C24, as stated: with triggering enabled and an edge at first index t, the
\* first display point is the sample at buffer index t.
C24_AnchoredAtFirstEdge ==
    /\ called = "get_display_samples"
    /\ enabled
    /\ EdgeIndices(samples, edge, level) # {}
    /\ ret.points # <<>>
    => /\ ret.start_index = FirstEdge
       /\ ret.points[1] = <<Frac(0, ret.samples_per_screen),
                            Frac(At(samples, FirstEdge), volts_per_division)>>

\* C24, amended: with triggering enabled and an edge at first index t, the
\* window starts at min(t, len(buffer) - min(len(buffer), samples_per_screen));
\* its first point is the sample at index t when a whole screen fits after t.
C24_AnchoredWhenScreenFits ==
    /\ called = "get_display_samples"
    /\ enabled
    /\ EdgeIndices(samples, edge, level) # {}
    => LET sps == ret.samples_per_screen
       IN  /\ ret.start_index = Min(FirstEdge, SaturatingSub(Len(samples), sps))
           /\ sps >= 1 /\ FirstEdge + sps <= Len(samples) =>
                  /\ ret.points # <<>>
                  /\ ret.points[1] = <<Frac(0, sps),
                                       Frac(At(samples, FirstEdge), volts_per_division)>>

\* A triggered display call with the edge late in the buffer: the window slid
\* back and starts before the trigger.
C24_Witness ==
    /\ called = "get_display_samples"
    /\ enabled
    /\ EdgeIndices(samples, edge, level) # {}
    /\ FirstEdge + ret.samples_per_screen > Len(samples)
    /\ ret.start_index < FirstEdge
    /\ ret.points # <<>>

C29_ZeroMeansNoTrigger ==
    called = "find_trigger_point" /\ samples # <<>> =>
        /\ 0 <= ret.trigger_index
        /\ ret.trigger_index < Len(samples)
        /\ ret.trigger_index = 0 <=> EdgeIndices(samples, edge, level) = {}

\* A call on a buffer whose first two samples form an edge: index 1 is returned.
C29_Witness ==
    /\ called = "find_trigger_point"
    /\ Len(samples) >= 2
    /\ EdgeAt(samples, 1, edge, level)
    /\ edge = "Falling"
    /\ ret.trigger_index = 1

\* Whether the fraction p is strictly below the fraction q.
FracLess(p, q) == FracLeq(p, q) /\ p # q

\* C27: when a history of n entries is drawn, the entry at FIFO position i
\* (0 = oldest) has alpha = 0.6 x (i + 1) / (n + 1); alpha strictly increases from
\* oldest to newest and every alpha is strictly below 0.6.
C27_AlphaFadesBelowSixTenths ==
    called \in {"draw", "render"} =>
        LET a == ret.alphas
            n == Len(history)
        IN  /\ \A k \in 1..Len(a) :
                   a[k].drawn =>
                       /\ a[k].alpha = Frac(6 * k, 10 * (n + 1))
                       /\ FracLess(a[k].alpha, <<3, 5>>)
            /\ \A j, k \in 1..Len(a) :
                   j < k /\ a[j].drawn /\ a[k].drawn => FracLess(a[j].alpha, a[k].alpha)

\* C25: after every tick, whichever sample source is active, the published
\* spectrum is the spectrum of the sample set the waveform window and the
\* measurements read (the desktop shell is the one that publishes a spectrum).
C25_SpectrumOfWaveformSamples ==
    shell = "desktop" /\ last_op \in {"append", "tick"} =>
        spectrum_canvas = UpdateSpectrum(samples, sample_rate)

\* C30: after every tick, whichever sample source is active, the sample set
\* held by the waveform equals the rolling sample buffer, and so has at most
\* samples_per_screen + 200 samples.
C30_WaveformHoldsRollingBuffer ==
    last_op \in {"append", "tick"} =>
        /\ samples = audio_buffer
        /\ Len(samples) <= Capacity

---------------------------------------------------------------------------
(* Claims about the capture handoff, checked under SpecHandoff.            *)

\* Whether s is strictly increasing.
Increasing(s) == \A k \in 1..(Len(s) - 1) : s[k] < s[k + 1]

\* C26: under any interleaving of producer callbacks and read_samples calls,
\* a call returns the min(max_count, buffered) oldest buffered samples in
\* arrival order and removes them from the handoff buffer; no sample is returned
\* twice or out of order; a call with nothing buffered returns nothing.
C26_ReadDrainsOldest ==
    [][called' = "read_samples" /\ steps_left' = steps_left - 1 =>
         LET n == Min(ret'.max_samples, Len(sample_buffer))
             out == ret'.samples
         IN  /\ Len(out) = n
             /\ \A k \in 1..n : out[k] = sample_buffer[k]
             /\ Len(sample_buffer') = Len(sample_buffer) - n
             /\ \A k \in 1..Len(sample_buffer') : sample_buffer'[k] = sample_buffer[n + k]
             /\ Increasing(out)
             /\ out # <<>> => out[1] > LastReturned
             /\ sample_buffer' # <<>> => sample_buffer'[1] > LastReturned'
             /\ sample_buffer = <<>> => out = <<>>]_vars

\* A second read_samples call, with a callback between it and the first one,
\* which returned the whole buffer of more than one callback, starting after
\* the last sample returned before.
C26_Witness ==
    /\ called = "read_samples"
    /\ ret.last_returned = 1
    /\ ret.max_samples = UsizeMax
    /\ ret.buffered = 2 * ScriptBufferSize - 1
    /\ Len(ret.samples) = ret.buffered
    /\ ret.samples[1] = 2
    /\ sample_buffer = <<>>

=============================================================================
